---- MODULE Spec2Model ----
(***************************************************************************)
(* Round-lifecycle reconciliation engine of the dice display client.       *)
(* The program is single-threaded and callback-driven: every action below  *)
(* is one whole handler (push-event listener, fetch completion, timer or   *)
(* animation-frame callback, visibility change), run to completion.        *)
(* Handlers are written as operators from a state record to a state record *)
(* so that the calls a handler makes compose in the order of the code.     *)
(***************************************************************************)
EXTENDS Integers, Sequences, FiniteSets, TLC

VARIABLES
    now,                  \* Date.now(), local milliseconds
    hidden,               \* document.hidden
    serverTimeOffset,     \* GameConfig.serverTimeOffset
    targetValues,         \* GameConfig.targetValues
    currentRoundId,       \* GameConfig.currentRoundId
    gameState,
    scheduledStartAt,
    scheduledEndAt,
    countdownHandle,
    countdownHandleMode,
    countdownTotalMs,
    cancelledUntil,
    waitingStateTimeout,
    isFetchingSnapshot,
    timeSyncInterval,
    eventSource,          \* index into sources, or NULL
    reconnectAttempts,
    isConnected,
    statusText,           \* DOM: #statusText
    resultLabel,          \* DOM: .result-label
    resultSymbols,        \* DOM: #resultSymbols, the dice faces shown
    connectionText,       \* DOM: #connectionStatus
    frames,               \* browser: requestAnimationFrame callbacks pending
    timeouts,             \* browser: setTimeout callbacks pending
    intervals,            \* browser: setInterval ids alive
    sources,              \* browser: every EventSource created, its readyState
    pendingFetches,       \* browser: snapshot fetches whose promise is unsettled
    pendingSyncs,         \* browser: time-sync fetches whose promise is unsettled
    prevSnap              \* history: the snapshot applied last, and the display it left

vars == <<now, hidden, serverTimeOffset, targetValues, currentRoundId, gameState,
          scheduledStartAt, scheduledEndAt, countdownHandle, countdownHandleMode,
          countdownTotalMs, cancelledUntil, waitingStateTimeout, isFetchingSnapshot,
          timeSyncInterval, eventSource, reconnectAttempts, isConnected,
          statusText, resultLabel, resultSymbols, connectionText, frames, timeouts,
          intervals, sources, pendingFetches, pendingSyncs, prevSnap>>

(***************************************************************************)
(* Bounds of the model.                                                    *)
(***************************************************************************)
TickMs == 1200          \* local time advances in steps of TickMs
MaxNow == 4800          \* local time stops advancing here
MaxLatency == 1200      \* a message's serverNow is at most this far behind now
MaxRolls == 2           \* roll animations running (settle delays pending) at once
FineTickMs == 200       \* time step of the end-to-end scenario
MaxFineNow == 9000      \* local time bound of the end-to-end scenario
ConnTickMs == 2000      \* time step of the connection life cycle
MaxConnNow == 6000      \* local time bound of the connection life cycle
MaxSources == 3         \* EventSource objects created in the connection life cycle
MaxSyncs == 1           \* time-sync fetches in flight at once

(***************************************************************************)
(* Program constants.                                                      *)
(***************************************************************************)
NULL == -1                      \* null / undefined
rollDuration == 2500            \* GameConfig.rollDuration
reconnectDelay == 2000          \* GameConfig.reconnectDelay
maxReconnectAttempts == 10      \* GameConfig.maxReconnectAttempts
DiceCount == 6                  \* dice.length after createDice
HiddenTickDelay == 100          \* setTimeout delay of a countdown tick while hidden
WaitingFallbackDelay == 2000    \* setTimeout delay in showWaitingState
ConnectDelay == 500             \* setTimeout delay before the first connectSSE
CancelFallbackMs == 30000       \* horizon fallback in the round.cancelled listener
MaxBackoffFactor == 5           \* cap of the reconnect backoff multiplier
InitialTargetValues == <<1, 2, 3, 4, 5, 6>>
NoRound == "null"               \* currentRoundId: null

Max(a, b) == IF a >= b THEN a ELSE b
Min(a, b) == IF a <= b THEN a ELSE b

\* JavaScript truthiness of a number | null: null and 0 are falsy.
Truthy(x) == x # NULL /\ x # 0
\* a ?? b
Coalesce(a, b) == IF a # NULL THEN a ELSE b
\* Math.ceil(a / b) for a >= 0, b > 0
CeilDiv(a, b) == (a + b - 1) \div b

(***************************************************************************)
(* The state record the handlers work on.                                  *)
(***************************************************************************)
Cur == [now |-> now, hidden |-> hidden, serverTimeOffset |-> serverTimeOffset,
        targetValues |-> targetValues, currentRoundId |-> currentRoundId,
        gameState |-> gameState, scheduledStartAt |-> scheduledStartAt,
        scheduledEndAt |-> scheduledEndAt, countdownHandle |-> countdownHandle,
        countdownHandleMode |-> countdownHandleMode,
        countdownTotalMs |-> countdownTotalMs, cancelledUntil |-> cancelledUntil,
        waitingStateTimeout |-> waitingStateTimeout,
        isFetchingSnapshot |-> isFetchingSnapshot,
        timeSyncInterval |-> timeSyncInterval, eventSource |-> eventSource,
        reconnectAttempts |-> reconnectAttempts, isConnected |-> isConnected,
        statusText |-> statusText,
        resultLabel |-> resultLabel, resultSymbols |-> resultSymbols,
        connectionText |-> connectionText, frames |-> frames,
        timeouts |-> timeouts, intervals |-> intervals, sources |-> sources,
        pendingFetches |-> pendingFetches, pendingSyncs |-> pendingSyncs]

Commit(s) ==
    /\ now' = s.now
    /\ hidden' = s.hidden
    /\ serverTimeOffset' = s.serverTimeOffset
    /\ targetValues' = s.targetValues
    /\ currentRoundId' = s.currentRoundId
    /\ gameState' = s.gameState
    /\ scheduledStartAt' = s.scheduledStartAt
    /\ scheduledEndAt' = s.scheduledEndAt
    /\ countdownHandle' = s.countdownHandle
    /\ countdownHandleMode' = s.countdownHandleMode
    /\ countdownTotalMs' = s.countdownTotalMs
    /\ cancelledUntil' = s.cancelledUntil
    /\ waitingStateTimeout' = s.waitingStateTimeout
    /\ isFetchingSnapshot' = s.isFetchingSnapshot
    /\ timeSyncInterval' = s.timeSyncInterval
    /\ eventSource' = s.eventSource
    /\ reconnectAttempts' = s.reconnectAttempts
    /\ isConnected' = s.isConnected
    /\ statusText' = s.statusText
    /\ resultLabel' = s.resultLabel
    /\ resultSymbols' = s.resultSymbols
    /\ connectionText' = s.connectionText
    /\ frames' = s.frames
    /\ timeouts' = s.timeouts
    /\ intervals' = s.intervals
    /\ sources' = s.sources
    /\ pendingFetches' = s.pendingFetches
    /\ pendingSyncs' = s.pendingSyncs

(***************************************************************************)
(* Browser timer tables.  A handle is the id of an entry; ids of entries   *)
(* that are gone are reused (the program holds no handle to them), and a   *)
(* timeout whose handle the program drops has id NULL; two such timeouts   *)
(* with the same callback, arguments and due instant are one entry (they   *)
(* run back to back with the same effect).                                 *)
(***************************************************************************)
FreshId(used) == CHOOSE i \in 1..(Cardinality(used) + 1) : i \notin used

\* requestAnimationFrame(() => animateCountdownToTime(targetTime, label, totalDuration))
\* at: the instant of the request; the callback runs in a later frame
Frame(id, at, targetTime, label, totalDuration) ==
    [id |-> id, at |-> at, targetTime |-> targetTime, label |-> label,
     totalDuration |-> totalDuration]

\* window.setTimeout(cb, delay): cb is "connect", "tick", "waiting", "settle" or
\* "reconnect"
Timeout(id, cb, due, targetTime, label, totalDuration, diceValues) ==
    [id |-> id, cb |-> cb, due |-> due, targetTime |-> targetTime, label |-> label,
     totalDuration |-> totalDuration, diceValues |-> diceValues]

cancelAnimationFrame(s, h) ==
    [s EXCEPT !.frames = {f \in s.frames : f.id # h}]

clearTimeout(s, h) ==
    [s EXCEPT !.timeouts = {t \in s.timeouts : t.id # h}]

(***************************************************************************)
(* Server time.                                                            *)
(***************************************************************************)
getServerTime(s) == s.now + s.serverTimeOffset

\* fault: the offset is taken with the wrong sign
updateServerTimeOffset_signError(s, serverNow) ==
    [s EXCEPT !.serverTimeOffset = s.now - serverNow]

updateServerTimeOffset(s, serverNow) ==
    [s EXCEPT !.serverTimeOffset = serverNow - s.now]

(***************************************************************************)
(* Connection status.                                                      *)
(***************************************************************************)
updateConnectionStatus(s, connected, message) ==
    [s EXCEPT !.isConnected = connected, !.connectionText = message]

(***************************************************************************)
(* Countdown scheduler and display states.                                 *)
(***************************************************************************)
\* fault: the handle is dropped, the browser callback it names is left pending
clearCountdownFrame_handleOnly(s) ==
    [s EXCEPT !.countdownHandle = NULL, !.countdownHandleMode = "null"]

clearCountdownFrame(s) ==
    LET s1 == IF s.countdownHandle # NULL
              THEN IF s.countdownHandleMode = "raf"
                   THEN cancelAnimationFrame(s, s.countdownHandle)
                   ELSE clearTimeout(s, s.countdownHandle)
              ELSE s
    IN [s1 EXCEPT !.countdownHandle = NULL, !.countdownHandleMode = "null"]

\* fault: the tick is queued without the pending one being cancelled first
queueCountdownFrame_noClear(s, targetTime, label, totalDuration) ==
    IF s.hidden
    THEN LET id == FreshId({t.id : t \in s.timeouts})
         IN [s EXCEPT !.countdownHandleMode = "timeout",
                      !.countdownHandle = id,
                      !.timeouts = @ \cup {Timeout(id, "tick", s.now + HiddenTickDelay,
                                                   targetTime, label, totalDuration, <<>>)}]
    ELSE LET id == FreshId({f.id : f \in s.frames})
         IN [s EXCEPT !.countdownHandleMode = "raf",
                      !.countdownHandle = id,
                      !.frames = @ \cup {Frame(id, s.now, targetTime, label,
                                               totalDuration)}]

queueCountdownFrame(s, targetTime, label, totalDuration) ==
    LET s1 == clearCountdownFrame(s)
    IN IF s1.hidden
       THEN LET id == FreshId({t.id : t \in s1.timeouts})
            IN [s1 EXCEPT !.countdownHandleMode = "timeout",
                          !.countdownHandle = id,
                          !.timeouts = @ \cup {Timeout(id, "tick", s1.now + HiddenTickDelay,
                                                       targetTime, label, totalDuration, <<>>)}]
       ELSE LET id == FreshId({f.id : f \in s1.frames})
            IN [s1 EXCEPT !.countdownHandleMode = "raf",
                          !.countdownHandle = id,
                          !.frames = @ \cup {Frame(id, s1.now, targetTime, label,
                                                   totalDuration)}]

cancelCountdown(s) ==
    LET s1 == clearCountdownFrame(s)
        s2 == IF s1.waitingStateTimeout # NULL
              THEN [clearTimeout(s1, s1.waitingStateTimeout)
                        EXCEPT !.waitingStateTimeout = NULL]
              ELSE s1
    IN [s2 EXCEPT !.countdownTotalMs = NULL]

\* buildResultSymbols: the first six values, those outside 1..6 left out
buildResultSymbols(diceValues) ==
    SelectSeq(SubSeq(diceValues, 1, Min(6, Len(diceValues))),
              LAMBDA v : v >= 1 /\ v <= 6)

showLastOutcome(s, diceValues) ==
    [s EXCEPT !.gameState = "result",
              !.resultSymbols = buildResultSymbols(diceValues),
              !.resultLabel = "Last Result"]

showResult(s, diceValues) ==
    [s EXCEPT !.gameState = "result",
              !.resultSymbols = buildResultSymbols(diceValues),
              !.resultLabel = "Round Result"]

showWaitingState(s, message) ==
    LET s1 == IF s.waitingStateTimeout # NULL
              THEN [clearTimeout(s, s.waitingStateTimeout)
                        EXCEPT !.waitingStateTimeout = NULL]
              ELSE s
        s2 == [s1 EXCEPT !.gameState = "waiting",
                         !.countdownTotalMs = NULL,
                         !.statusText = message]
        isWaitingForActiveRound ==
            Truthy(s2.scheduledEndAt) /\ getServerTime(s2) < s2.scheduledEndAt
    IN IF ~isWaitingForActiveRound
       THEN LET id == FreshId({t.id : t \in s2.timeouts})
            IN [s2 EXCEPT !.waitingStateTimeout = id,
                          !.timeouts = @ \cup {Timeout(id, "waiting",
                                                       s2.now + WaitingFallbackDelay,
                                                       NULL, "", NULL, <<>>)}]
       ELSE s2

\* fault: the offset is subtracted from the local clock, not added
countdownRemaining_offsetSign(s, targetTime) ==
    Max(0, targetTime - (s.now - s.serverTimeOffset))

\* animateCountdownToTime: const remaining
countdownRemaining(s, targetTime) == Max(0, targetTime - getServerTime(s))

\* fault: the denominator is the base duration, however much remains
countdownDuration_baseOnly(s, targetTime, totalDuration) ==
    Max(1, Coalesce(totalDuration, targetTime - getServerTime(s)))

\* animateCountdownToTime: const duration
countdownDuration(s, targetTime, totalDuration) ==
    LET remaining == countdownRemaining(s, targetTime)
        baseDuration == Coalesce(totalDuration, targetTime - getServerTime(s))
    IN Max(1, Max(baseDuration, remaining))

\* animateCountdownToTime: const progress = 1 - remaining / duration, kept as
\* the fraction num / den
countdownProgress(s, targetTime, totalDuration) ==
    LET remaining == countdownRemaining(s, targetTime)
        duration == countdownDuration(s, targetTime, totalDuration)
    IN [num |-> duration - remaining, den |-> duration]

animateCountdownToTime(s, targetTime, label, totalDuration) ==
    LET remaining == countdownRemaining(s, targetTime)
        duration == countdownDuration(s, targetTime, totalDuration)
        secondsLeft == CeilDiv(remaining, 1000)
        s1 == [s EXCEPT !.statusText = IF secondsLeft <= 3 /\ secondsLeft > 0
                                       THEN "Get ready..." ELSE label]
    IN IF remaining > 0
       THEN queueCountdownFrame(s1, targetTime, label, duration)
       ELSE LET s2 == clearCountdownFrame(s1)
            IN IF s2.gameState = "countdown"
               THEN showWaitingState(s2, "Waiting for result...")
               ELSE s2

\* fault: the target is taken from the local clock, not from server time
startScheduledCountdown_localClock(s, totalMs, remainingMs) ==
    IF ~Truthy(s.scheduledStartAt) THEN s
    ELSE IF Truthy(s.cancelledUntil) /\ getServerTime(s) < s.cancelledUntil
    THEN showWaitingState(s, "Waiting for next round...")
    ELSE LET remaining == Coalesce(remainingMs,
                                   Max(0, s.scheduledStartAt - getServerTime(s)))
             total == Max(1, Coalesce(totalMs, Coalesce(s.countdownTotalMs, remaining)))
             targetTime == s.now + remaining
             s1 == [s EXCEPT !.countdownTotalMs = total,
                             !.gameState = "countdown",
                             !.statusText = "Round starting soon..."]
         IN animateCountdownToTime(s1, targetTime, "Round starting in", total)

startScheduledCountdown(s, totalMs, remainingMs) ==
    IF ~Truthy(s.scheduledStartAt) THEN s
    ELSE IF Truthy(s.cancelledUntil) /\ getServerTime(s) < s.cancelledUntil
    THEN showWaitingState(s, "Waiting for next round...")
    ELSE LET remaining == Coalesce(remainingMs,
                                   Max(0, s.scheduledStartAt - getServerTime(s)))
             total == Max(1, Coalesce(totalMs, Coalesce(s.countdownTotalMs, remaining)))
             targetTime == getServerTime(s) + remaining
             s1 == [s EXCEPT !.countdownTotalMs = total,
                             !.gameState = "countdown",
                             !.statusText = "Round starting soon..."]
         IN animateCountdownToTime(s1, targetTime, "Round starting in", total)

\* fault: the countdown of a started round runs to startAt, not to endAt
startRoundCountdown_toStartAt(s, totalMs, remainingMs) ==
    IF ~Truthy(s.scheduledEndAt) THEN s
    ELSE IF Truthy(s.cancelledUntil) /\ getServerTime(s) < s.cancelledUntil
    THEN showWaitingState(s, "Waiting for next round...")
    ELSE LET s0 == clearCountdownFrame(s)
             remaining == Coalesce(remainingMs,
                                   Max(0, s0.scheduledStartAt - getServerTime(s0)))
             total == Max(1, Coalesce(totalMs, Coalesce(s0.countdownTotalMs, remaining)))
             targetTime == getServerTime(s0) + remaining
             s1 == [s0 EXCEPT !.countdownTotalMs = total,
                              !.gameState = "countdown",
                              !.statusText = "Rolling soon..."]
         IN animateCountdownToTime(s1, targetTime, "Result in", total)

startRoundCountdown(s, totalMs, remainingMs) ==
    IF ~Truthy(s.scheduledEndAt) THEN s
    ELSE IF Truthy(s.cancelledUntil) /\ getServerTime(s) < s.cancelledUntil
    THEN showWaitingState(s, "Waiting for next round...")
    ELSE LET s0 == clearCountdownFrame(s)
             remaining == Coalesce(remainingMs,
                                   Max(0, s0.scheduledEndAt - getServerTime(s0)))
             total == Max(1, Coalesce(totalMs, Coalesce(s0.countdownTotalMs, remaining)))
             targetTime == getServerTime(s0) + remaining
             s1 == [s0 EXCEPT !.countdownTotalMs = total,
                              !.gameState = "countdown",
                              !.statusText = "Rolling soon..."]
         IN animateCountdownToTime(s1, targetTime, "Result in", total)

startRolling(s, diceValues) ==
    LET s1 == cancelCountdown(s)
        s2 == IF s1.waitingStateTimeout # NULL
              THEN [clearTimeout(s1, s1.waitingStateTimeout)
                        EXCEPT !.waitingStateTimeout = NULL]
              ELSE s1
        s3 == [s2 EXCEPT !.gameState = "rolling"]
    IN [s3 EXCEPT !.timeouts = @ \cup {Timeout(NULL, "settle",
                                               s3.now + rollDuration + DiceCount * 100 + 500,
                                               NULL, "", NULL, diceValues)}]

\* updateDiceToValues: the dice meshes are set, and GameConfig.targetValues
updateDiceToValues(s, values) == [s EXCEPT !.targetValues = values]

(***************************************************************************)
(* Push channel: connectSSE and the listeners it attaches.                 *)
(***************************************************************************)
\* diceValues: number[] | null -- null is this value
NullDice == <<NULL>>
IsArray(v) == v # NullDice

connectSSE(s) ==
    LET s1 == updateConnectionStatus(s, FALSE, "Connecting...")
    IN [s1 EXCEPT !.sources = Append(@, "connecting"),
                  !.eventSource = Len(s1.sources) + 1]

\* fault: the in-flight guard is missing
fetchSnapshotAndSync_unguarded(s) ==
    [s EXCEPT !.isFetchingSnapshot = TRUE, !.pendingFetches = @ + 1]

\* fetchSnapshotAndSync up to its first await: the fetch is issued
fetchSnapshotAndSync(s) ==
    IF s.isFetchingSnapshot THEN s
    ELSE [s EXCEPT !.isFetchingSnapshot = TRUE, !.pendingFetches = @ + 1]

\* window.setInterval(cb, 30000): the callback runs once per period
clearInterval(s, h) == [s EXCEPT !.intervals = @ \ {h}]

\* fault: the previous interval is left running
startPeriodicTimeSync_keepsPrevious(s) ==
    LET id == FreshId(s.intervals)
    IN [s EXCEPT !.timeSyncInterval = id, !.intervals = @ \cup {id}]

startPeriodicTimeSync(s) ==
    LET s1 == IF s.timeSyncInterval # NULL
              THEN clearInterval(s, s.timeSyncInterval)
              ELSE s
        id == FreshId(s1.intervals)
    IN [s1 EXCEPT !.timeSyncInterval = id, !.intervals = @ \cup {id}]

stopPeriodicTimeSync(s) ==
    IF s.timeSyncInterval # NULL
    THEN [clearInterval(s, s.timeSyncInterval) EXCEPT !.timeSyncInterval = NULL]
    ELSE s

\* the interval's callback up to its first await: the fetch is issued
timeSyncTick(s) == [s EXCEPT !.pendingSyncs = @ + 1]

\* the fetch resolved with an OK response
timeSyncResolved(s, data) == updateServerTimeOffset(s, data.serverNow)

\* the fetch rejected, or the response was not OK
timeSyncRejected(s) == s

onopen(s) ==
    LET s1 == [s EXCEPT !.reconnectAttempts = 0]
        s2 == updateConnectionStatus(s1, TRUE, "Connected")
        s3 == fetchSnapshotAndSync(s2)
    IN startPeriodicTimeSync(s3)

\* fault: the backoff factor is not capped
scheduleReconnect_uncapped(s) ==
    IF s.reconnectAttempts >= maxReconnectAttempts
    THEN updateConnectionStatus(s, FALSE, "Connection failed")
    ELSE LET s1 == [s EXCEPT !.reconnectAttempts = @ + 1]
             delay == reconnectDelay * s1.reconnectAttempts
             s2 == updateConnectionStatus(s1, FALSE,
                       "Reconnecting in " \o ToString(CeilDiv(delay, 1000)) \o "s...")
         IN [s2 EXCEPT !.timeouts = @ \cup {Timeout(NULL, "reconnect", s2.now + delay,
                                                    NULL, "", NULL, <<>>)}]

scheduleReconnect(s) ==
    IF s.reconnectAttempts >= maxReconnectAttempts
    THEN updateConnectionStatus(s, FALSE, "Connection failed")
    ELSE LET s1 == [s EXCEPT !.reconnectAttempts = @ + 1]
             delay == reconnectDelay * Min(s1.reconnectAttempts, MaxBackoffFactor)
             s2 == updateConnectionStatus(s1, FALSE,
                       "Reconnecting in " \o ToString(CeilDiv(delay, 1000)) \o "s...")
         IN [s2 EXCEPT !.timeouts = @ \cup {Timeout(NULL, "reconnect", s2.now + delay,
                                                    NULL, "", NULL, <<>>)}]

\* eventSource.onerror of any EventSource connectSSE created; the test reads
\* the readyState of the EventSource the variable eventSource holds now
onerror(s) ==
    LET s1 == updateConnectionStatus(s, FALSE, "Connection lost")
    IN IF s1.eventSource # NULL /\ s1.sources[s1.eventSource] = "closed"
       THEN scheduleReconnect(s1)
       ELSE s1

\* eventSource.close()
close(s, h) == [s EXCEPT !.sources[h] = "closed"]

\* fault: the attempt counter is not reset
reconnect_keepsAttempts(s) ==
    LET s1 == IF s.eventSource # NULL THEN close(s, s.eventSource) ELSE s
    IN connectSSE(s1)

reconnect(s) ==
    LET s1 == IF s.eventSource # NULL THEN close(s, s.eventSource) ELSE s
        s2 == [s1 EXCEPT !.reconnectAttempts = 0]
    IN connectSSE(s2)

\* fault: the outcome is shown whatever the display state
onLastOutcome_alwaysShown(s, data) ==
    LET s1 == updateServerTimeOffset(s, data.serverNow)
        s2 == [s1 EXCEPT !.targetValues = data.diceValues,
                         !.currentRoundId = data.roundId]
        s3 == updateDiceToValues(s2, data.diceValues)
    IN showLastOutcome(s3, data.diceValues)

\* fault: the outcome is shown in Waiting whether a RoundWindow is known or not
onLastOutcome_anyWaiting(s, data) ==
    LET s1 == updateServerTimeOffset(s, data.serverNow)
        s2 == [s1 EXCEPT !.targetValues = data.diceValues,
                         !.currentRoundId = data.roundId]
        s3 == updateDiceToValues(s2, data.diceValues)
    IN IF s3.gameState = "idle" \/ s3.gameState = "waiting"
       THEN showLastOutcome(s3, data.diceValues)
       ELSE s3

onLastOutcome(s, data) ==
    LET s1 == updateServerTimeOffset(s, data.serverNow)
        s2 == [s1 EXCEPT !.targetValues = data.diceValues,
                         !.currentRoundId = data.roundId]
        s3 == updateDiceToValues(s2, data.diceValues)
    IN IF s3.gameState = "idle"
          \/ (s3.gameState = "waiting" /\ ~Truthy(s3.scheduledEndAt))
       THEN showLastOutcome(s3, data.diceValues)
       ELSE s3

\* fault: startAt is installed without endAt
onRoundScheduled_startOnly(s, data) ==
    LET s1 == updateServerTimeOffset(s, data.serverNow)
        s2 == [s1 EXCEPT !.cancelledUntil = NULL,
                         !.scheduledStartAt = data.startAt]
    IN startScheduledCountdown(s2, data.totalMs, data.remainingMs)

onRoundScheduled(s, data) ==
    LET s1 == updateServerTimeOffset(s, data.serverNow)
        s2 == [s1 EXCEPT !.cancelledUntil = NULL,
                         !.scheduledStartAt = data.startAt,
                         !.scheduledEndAt = data.endAt]
    IN startScheduledCountdown(s2, data.totalMs, data.remainingMs)

\* fault: the cancellation horizon is left in place
onRoundStarted_keepsHorizon(s, data) ==
    LET s1 == updateServerTimeOffset(s, data.serverNow)
        s2 == [s1 EXCEPT !.currentRoundId = data.roundId,
                         !.scheduledStartAt = data.startAt,
                         !.scheduledEndAt = data.endAt]
        s3 == cancelCountdown(s2)
    IN startRoundCountdown(s3, data.totalMs, data.remainingMs)

onRoundStarted(s, data) ==
    LET s1 == updateServerTimeOffset(s, data.serverNow)
        s2 == [s1 EXCEPT !.cancelledUntil = NULL,
                         !.currentRoundId = data.roundId,
                         !.scheduledStartAt = data.startAt,
                         !.scheduledEndAt = data.endAt]
        s3 == cancelCountdown(s2)
    IN startRoundCountdown(s3, data.totalMs, data.remainingMs)

onRoundResult(s, data) ==
    LET s1 == updateServerTimeOffset(s, data.serverNow)
        s2 == [s1 EXCEPT !.targetValues = data.diceValues,
                         !.currentRoundId = data.roundId]
        s3 == cancelCountdown(s2)
    IN startRolling(s3, data.diceValues)

\* fault: the horizon is never earlier than the fallback
onRoundCancelled_maxHorizon(s, data) ==
    LET s1 == updateServerTimeOffset(s, data.serverNow)
        fallback == getServerTime(s1) + CancelFallbackMs
        horizon == Max(fallback, Coalesce(s1.scheduledEndAt,
                                          Coalesce(s1.scheduledStartAt, fallback)))
        s2 == [s1 EXCEPT !.cancelledUntil = horizon]
        s3 == cancelCountdown(s2)
    IN showWaitingState(s3, "Waiting for next round...")

onRoundCancelled(s, data) ==
    LET s1 == updateServerTimeOffset(s, data.serverNow)
        horizon == Coalesce(s1.scheduledEndAt,
                            Coalesce(s1.scheduledStartAt,
                                     getServerTime(s1) + CancelFallbackMs))
        s2 == [s1 EXCEPT !.cancelledUntil = horizon]
        s3 == cancelCountdown(s2)
    IN showWaitingState(s3, "Waiting for next round...")

\* the body of a message: decoded data, or text JSON.parse throws on
Decoded(data) == [ok |-> TRUE, data |-> data]
Malformed == [ok |-> FALSE]

\* the listeners with their parse guard: try { JSON.parse } catch { return }
\* fault: a message that fails to decode is taken for a connection error
lastOutcomeListener_connectionLost(s, body) ==
    IF ~body.ok THEN updateConnectionStatus(s, FALSE, "Connection lost")
    ELSE onLastOutcome(s, body.data)

lastOutcomeListener(s, body) ==
    IF ~body.ok THEN s ELSE onLastOutcome(s, body.data)

roundScheduledListener(s, body) ==
    IF ~body.ok THEN s ELSE onRoundScheduled(s, body.data)

roundStartedListener(s, body) ==
    IF ~body.ok THEN s ELSE onRoundStarted(s, body.data)

roundResultListener(s, body) ==
    IF ~body.ok THEN s ELSE onRoundResult(s, body.data)

roundCancelledListener(s, body) ==
    IF ~body.ok THEN s ELSE onRoundCancelled(s, body.data)

EventKinds == {"last.outcome", "round.scheduled", "round.started", "round.result",
               "round.cancelled"}

\* the listener addEventListener attached for a kind of event
Listener(kind, s, body) ==
    CASE kind = "last.outcome" -> lastOutcomeListener(s, body)
      [] kind = "round.scheduled" -> roundScheduledListener(s, body)
      [] kind = "round.started" -> roundStartedListener(s, body)
      [] kind = "round.result" -> roundResultListener(s, body)
      [] kind = "round.cancelled" -> roundCancelledListener(s, body)

(***************************************************************************)
(* Snapshot reconciliation: the part of fetchSnapshotAndSync that runs     *)
(* when the fetch settles.                                                 *)
(***************************************************************************)
\* the body of the try block after the awaits; `return` leaves it early
snapshotBody(s, data) ==
    LET s1 == updateServerTimeOffset(s, data.serverNow)
        serverNow == data.serverNow
        s2 == [s1 EXCEPT !.targetValues = data.lastOutcome.diceValues,
                         !.currentRoundId = data.lastOutcome.roundId]
        s3 == updateDiceToValues(s2, s2.targetValues)
    IN IF data.state = "SCHEDULED"
       THEN IF Truthy(s3.cancelledUntil) /\ serverNow < s3.cancelledUntil
            THEN showWaitingState(cancelCountdown(s3), "Waiting for next round...")
            ELSE LET s4 == [s3 EXCEPT !.scheduledStartAt = data.startAt,
                                      !.scheduledEndAt = data.endAt]
                     remainingMs == Coalesce(data.remainingMs,
                                             Max(0, data.startAt - serverNow))
                 IN IF serverNow >= data.endAt
                    THEN showLastOutcome(s4, s4.targetValues)
                    ELSE IF serverNow >= data.startAt
                    THEN startRoundCountdown(s4,
                             Coalesce(data.totalMs, data.endAt - data.startAt),
                             Max(0, data.endAt - serverNow))
                    ELSE startScheduledCountdown(s4,
                             Coalesce(data.totalMs, remainingMs), remainingMs)
       ELSE IF data.state = "STARTED_OR_REVEALED"
       THEN IF Truthy(s3.cancelledUntil) /\ serverNow < s3.cancelledUntil
            THEN showWaitingState(cancelCountdown(s3), "Round cancelled")
            ELSE LET s4 == [s3 EXCEPT !.scheduledStartAt = data.round.startAt,
                                      !.scheduledEndAt = data.round.endAt,
                                      !.currentRoundId = data.round.id]
                 IN IF IsArray(data.round.diceValues)
                    THEN IF Len(data.round.diceValues) = 0
                         THEN showWaitingState(cancelCountdown(s4),
                                               "Waiting for next round...")
                         ELSE LET s5 == updateDiceToValues(
                                            [s4 EXCEPT !.targetValues =
                                                           data.round.diceValues],
                                            data.round.diceValues)
                              IN IF serverNow >= data.round.endAt
                                 THEN showResult(s5, s5.targetValues)
                                 ELSE startRolling(s5, s5.targetValues)
                    ELSE IF serverNow < data.round.endAt
                         THEN startRoundCountdown(s4,
                                  Coalesce(data.round.totalMs,
                                           data.round.endAt - data.round.startAt),
                                  Coalesce(data.round.remainingMs,
                                           Max(0, data.round.endAt - serverNow)))
                         ELSE showWaitingState(s4, "Waiting for result...")
       ELSE showLastOutcome(s3, s3.targetValues)

\* fault: the early return of a cancellation window skips the finally block
snapshotResolved_returnSkipsFinally(s, data) ==
    IF /\ data.state \in {"SCHEDULED", "STARTED_OR_REVEALED"}
       /\ Truthy(s.cancelledUntil)
       /\ data.serverNow < s.cancelledUntil
    THEN snapshotBody(s, data)
    ELSE [snapshotBody(s, data) EXCEPT !.isFetchingSnapshot = FALSE]

\* the fetch resolved with an OK response: try body, then finally
snapshotResolved(s, data) ==
    [snapshotBody(s, data) EXCEPT !.isFetchingSnapshot = FALSE]

\* fault: the in-flight flag is not released
snapshotRejected_keepsFlag(s) == s

\* the fetch rejected or the response was not OK: catch, then finally
snapshotRejected(s) == [s EXCEPT !.isFetchingSnapshot = FALSE]

\* fault: visibility regained asks for no reconciliation
onVisibilityChange_noReconcile(s) ==
    IF ~s.hidden THEN s ELSE clearCountdownFrame(s)

onVisibilityChange(s) ==
    IF ~s.hidden THEN fetchSnapshotAndSync(s) ELSE clearCountdownFrame(s)

(***************************************************************************)
(* Timer and frame callbacks.                                              *)
(***************************************************************************)
\* the callback queueCountdownFrame installed
countdownTick(s, targetTime, label, totalDuration) ==
    animateCountdownToTime(s, targetTime, label, totalDuration)

\* fault: the fallback puts the display back to idle
waitingFallback_toIdle(s) ==
    LET s1 == [s EXCEPT !.waitingStateTimeout = NULL]
    IN IF s1.gameState = "waiting"
          /\ ~(Truthy(s1.scheduledEndAt) /\ getServerTime(s1) < s1.scheduledEndAt)
       THEN [s1 EXCEPT !.gameState = "idle"]
       ELSE s1

\* the callback showWaitingState installed
waitingFallback(s) ==
    LET s1 == [s EXCEPT !.waitingStateTimeout = NULL]
    IN IF s1.gameState = "waiting"
          /\ ~(Truthy(s1.scheduledEndAt) /\ getServerTime(s1) < s1.scheduledEndAt)
       THEN showLastOutcome(s1, s1.targetValues)
       ELSE s1

\* the callback startRolling installed
settleDelay(s, diceValues) == showResult(s, diceValues)

(***************************************************************************)
(* Inputs: what the server may send.  A message stamped serverNow reaches  *)
(* the client up to MaxLatency later.                                      *)
(***************************************************************************)
\* a push event is handled as it is sent
EventNows == {now}
\* a snapshot was taken when the fetch reached the server
SnapshotNows == {n \in {now, now - MaxLatency} : n >= 0}

Windows == {[id |-> "r1", startAt |-> 2400, endAt |-> 4800]}

\* the optional totalMs and remainingMs fields: absent, or present
Remainders == {[totalMs |-> NULL, remainingMs |-> NULL],
               [totalMs |-> 3600, remainingMs |-> 1200]}

\* what a round's result is, and what the outcome before it was
Outcomes == {[roundId |-> "r1", diceValues |-> <<6, 5, 4, 3, 2, 1>>]}
LastOutcomes == {[roundId |-> "r0", diceValues |-> <<2, 2, 2, 2, 2, 2>>]}

LastOutcomeEvents ==
    {[diceValues |-> o.diceValues, roundId |-> o.roundId, serverNow |-> n] :
        o \in LastOutcomes, n \in EventNows}

RoundScheduledEvents ==
    {[startAt |-> w.startAt, endAt |-> w.endAt, totalMs |-> r.totalMs,
      remainingMs |-> r.remainingMs, serverNow |-> n] :
        w \in Windows, r \in Remainders, n \in EventNows}

RoundStartedEvents ==
    {[roundId |-> w.id, startAt |-> w.startAt, endAt |-> w.endAt,
      totalMs |-> r.totalMs, remainingMs |-> r.remainingMs, serverNow |-> n] :
        w \in Windows, r \in Remainders, n \in EventNows}

RoundResultEvents ==
    {[roundId |-> o.roundId, diceValues |-> o.diceValues, serverNow |-> n] :
        o \in Outcomes, n \in EventNows}

RoundCancelledEvents == {[serverNow |-> n] : n \in EventNows}

ScheduledSnapshots ==
    {[state |-> "SCHEDULED", startAt |-> w.startAt, endAt |-> w.endAt,
      totalMs |-> r.totalMs, remainingMs |-> r.remainingMs,
      lastOutcome |-> lo, serverNow |-> n] :
        w \in Windows, r \in Remainders, lo \in LastOutcomes, n \in SnapshotNows}

RoundDice == {NullDice, <<>>} \cup {o.diceValues : o \in Outcomes}

StartedSnapshots ==
    {[state |-> "STARTED_OR_REVEALED",
      round |-> [id |-> w.id, startAt |-> w.startAt, endAt |-> w.endAt,
                 diceValues |-> dv, totalMs |-> r.totalMs,
                 remainingMs |-> r.remainingMs],
      lastOutcome |-> lo, serverNow |-> n] :
        w \in Windows, dv \in RoundDice, r \in Remainders, lo \in LastOutcomes,
        n \in SnapshotNows}

IdleSnapshots ==
    {[state |-> "IDLE", lastOutcome |-> lo, serverNow |-> n] :
        lo \in LastOutcomes, n \in SnapshotNows}

Snapshots == ScheduledSnapshots \cup StartedSnapshots \cup IdleSnapshots

(***************************************************************************)
(* History variables.                                                      *)
(***************************************************************************)
\* the countdown ticks pending in the browser, whoever holds their handle
PendingTicks(s) ==
    {[targetTime |-> f.targetTime, label |-> f.label] : f \in s.frames}
    \cup {[targetTime |-> t.targetTime, label |-> t.label] :
              t \in {u \in s.timeouts : u.cb = "tick"}}

\* the target of the tick countdownHandle refers to, NULL when there is none
CountdownTarget(s) ==
    IF s.countdownHandle = NULL THEN NULL
    ELSE IF s.countdownHandleMode = "raf"
    THEN IF \E f \in s.frames : f.id = s.countdownHandle
         THEN (CHOOSE f \in s.frames : f.id = s.countdownHandle).targetTime
         ELSE NULL
    ELSE IF \E u \in s.timeouts : u.id = s.countdownHandle /\ u.cb = "tick"
         THEN (CHOOSE u \in s.timeouts : u.id = s.countdownHandle).targetTime
         ELSE NULL

\* the roll animations running: each has its settle delay pending
Rolls(s) == Cardinality({u \in s.timeouts : u.cb = "settle"})

\* the display state: Idle, Countdown(target), Waiting(label), Rolling or Result
DisplayView(s) ==
    [gameState |-> s.gameState,
     label |-> IF s.gameState = "waiting" THEN s.statusText ELSE "",
     target |-> IF s.gameState = "countdown" THEN CountdownTarget(s) ELSE NULL]

\* the timers a handler may start: the countdown tick the handle refers to,
\* the waiting fallbacks and the settle delays pending
TimerView(s) ==
    [target |-> CountdownTarget(s),
     waiting |-> {u.due : u \in {t \in s.timeouts : t.cb = "waiting"}},
     settle |-> {u.due : u \in {t \in s.timeouts : t.cb = "settle"}}]

NoSnap == [data |-> [state |-> "NONE"]]

\* prevSnap after one more application of `data` that left state s: the
\* snapshot, and the display the first of its consecutive applications left
Applied(data, s) ==
    IF prevSnap.data = data THEN prevSnap
    ELSE [data |-> data, first |-> DisplayView(s)]

(***************************************************************************)
(* Initial state: the module-level declarations, before connectSSE.        *)
(***************************************************************************)
Init ==
    /\ now = 0
    /\ hidden = FALSE
    /\ serverTimeOffset = 0
    /\ targetValues = InitialTargetValues
    /\ currentRoundId = NoRound
    /\ gameState = "idle"
    /\ scheduledStartAt = NULL
    /\ scheduledEndAt = NULL
    /\ countdownHandle = NULL
    /\ countdownHandleMode = "null"
    /\ countdownTotalMs = NULL
    /\ cancelledUntil = NULL
    /\ waitingStateTimeout = NULL
    /\ isFetchingSnapshot = FALSE
    /\ timeSyncInterval = NULL
    /\ eventSource = NULL
    /\ reconnectAttempts = 0
    /\ isConnected = FALSE
    /\ statusText = ""
    /\ resultLabel = ""
    /\ resultSymbols = <<>>
    /\ connectionText = ""
    /\ frames = {}
    /\ timeouts = {Timeout(NULL, "connect", ConnectDelay, NULL, "", NULL, <<>>)}
    /\ intervals = {}
    /\ sources = <<>>
    /\ pendingFetches = 0
    /\ pendingSyncs = 0
    /\ prevSnap = NoSnap

(***************************************************************************)
(* Actions: one per handler.                                               *)
(***************************************************************************)
ChannelOpen == \E i \in DOMAIN sources : sources[i] = "open"

\* init's setTimeout(() => connectSSE(), 500) runs
ConnectSSE ==
    \E t \in timeouts :
        /\ t.cb = "connect"
        /\ t.due <= now
        /\ Commit(connectSSE([Cur EXCEPT !.timeouts = @ \ {t}]))
        /\ UNCHANGED prevSnap

OnOpen ==
    \E i \in DOMAIN sources :
        /\ sources[i] = "connecting"
        /\ Commit(onopen([Cur EXCEPT !.sources[i] = "open"]))
        /\ UNCHANGED prevSnap

LastOutcome ==
    \E data \in LastOutcomeEvents :
        /\ ChannelOpen
        /\ Commit(onLastOutcome(Cur, data))
        /\ prevSnap' = NoSnap

RoundScheduled ==
    \E data \in RoundScheduledEvents :
        /\ ChannelOpen
        /\ Commit(onRoundScheduled(Cur, data))
        /\ prevSnap' = NoSnap

RoundStarted ==
    \E data \in RoundStartedEvents :
        /\ ChannelOpen
        /\ Commit(onRoundStarted(Cur, data))
        /\ prevSnap' = NoSnap

RoundResult ==
    \E data \in RoundResultEvents :
        /\ ChannelOpen
        /\ Rolls(Cur) < MaxRolls
        /\ Commit(onRoundResult(Cur, data))
        /\ prevSnap' = NoSnap

RoundCancelled ==
    \E data \in RoundCancelledEvents :
        /\ ChannelOpen
        /\ Commit(onRoundCancelled(Cur, data))
        /\ prevSnap' = NoSnap

\* a message arrives whose body does not decode
MalformedMessage ==
    \E kind \in EventKinds :
        /\ ChannelOpen
        /\ Commit(Listener(kind, Cur, Malformed))
        /\ UNCHANGED prevSnap

VisibilityChange ==
    /\ Commit(onVisibilityChange([Cur EXCEPT !.hidden = ~hidden]))
    /\ UNCHANGED prevSnap

\* the snapshot fetch settles with an OK response
SnapshotSettles(data) ==
    /\ pendingFetches > 0
    /\ Rolls(snapshotResolved(Cur, data)) <= MaxRolls
    /\ Commit([snapshotResolved(Cur, data) EXCEPT !.pendingFetches = @ - 1])

SnapshotResponse ==
    \E data \in Snapshots :
        /\ SnapshotSettles(data)
        /\ UNCHANGED prevSnap

\* the same, with the history of consecutive applications kept
SnapshotResponseTracked ==
    \E data \in Snapshots :
        /\ SnapshotSettles(data)
        /\ prevSnap' = Applied(data, snapshotResolved(Cur, data))

SnapshotError ==
    /\ pendingFetches > 0
    /\ Commit([snapshotRejected(Cur) EXCEPT !.pendingFetches = @ - 1])
    /\ UNCHANGED prevSnap

\* an animation frame runs the countdown tick (frames are not served while hidden)
CountdownFrame ==
    \E f \in frames :
        /\ ~hidden
        /\ f.at < now
        /\ Commit(countdownTick([Cur EXCEPT !.frames = @ \ {f}],
                                f.targetTime, f.label, f.totalDuration))
        /\ UNCHANGED prevSnap

CountdownTimeout ==
    \E t \in timeouts :
        /\ t.cb = "tick"
        /\ t.due <= now
        /\ Commit(countdownTick([Cur EXCEPT !.timeouts = @ \ {t}],
                                t.targetTime, t.label, t.totalDuration))
        /\ UNCHANGED prevSnap

WaitingTimeout ==
    \E t \in timeouts :
        /\ t.cb = "waiting"
        /\ t.due <= now
        /\ Commit(waitingFallback([Cur EXCEPT !.timeouts = @ \ {t}]))
        /\ UNCHANGED prevSnap

SettleTimeout ==
    \E t \in timeouts :
        /\ t.cb = "settle"
        /\ t.due <= now
        /\ Commit(settleDelay([Cur EXCEPT !.timeouts = @ \ {t}], t.diceValues))
        /\ UNCHANGED prevSnap

\* a callback that is due runs before the clock moves on
NothingDue(s) ==
    /\ \A t \in s.timeouts : t.due > s.now
    /\ s.hidden \/ \A f \in s.frames : f.at >= s.now

Advance(step, bound) ==
    /\ now < bound
    /\ NothingDue(Cur)
    /\ Commit([Cur EXCEPT !.now = @ + step])
    /\ UNCHANGED prevSnap

Tick == Advance(TickMs, MaxNow)

Next ==
    \/ ConnectSSE
    \/ OnOpen
    \/ LastOutcome
    \/ RoundScheduled
    \/ RoundStarted
    \/ RoundResult
    \/ RoundCancelled
    \/ VisibilityChange
    \/ MalformedMessage
    \/ SnapshotResponse
    \/ SnapshotError
    \/ CountdownFrame
    \/ CountdownTimeout
    \/ WaitingTimeout
    \/ SettleTimeout
    \/ Tick

Spec == Init /\ [][Next]_vars

(***************************************************************************)
(* Reconciliation alone: the channel opens, snapshots are pulled on open   *)
(* and on visibility regained, rounds are cancelled, timers run.  The      *)
(* history of consecutive snapshot applications is kept.                   *)
(***************************************************************************)
NextSnap ==
    \/ ConnectSSE
    \/ OnOpen
    \/ RoundCancelled
    \/ VisibilityChange
    \/ SnapshotResponseTracked
    \/ SnapshotError
    \/ CountdownFrame
    \/ CountdownTimeout
    \/ WaitingTimeout
    \/ SettleTimeout
    \/ Tick

SpecSnap == Init /\ [][NextSnap]_vars

(***************************************************************************)
(* The connection life cycle: transport errors, automatic reconnects with  *)
(* backoff, manual reconnect().  The display is left alone.                *)
(***************************************************************************)
\* the transport of an EventSource fails: the browser retries ("connecting")
\* or gives up ("closed"), and runs onerror
OnError ==
    \E i \in DOMAIN sources :
        \E to \in {"connecting", "closed"} :
            /\ sources[i] # "closed"
            /\ Commit(onerror([Cur EXCEPT !.sources[i] = to]))
            /\ UNCHANGED prevSnap

\* scheduleReconnect's setTimeout(() => connectSSE(), delay) runs
ReconnectTimeout ==
    \E t \in timeouts :
        /\ t.cb = "reconnect"
        /\ t.due <= now
        /\ Len(sources) < MaxSources
        /\ Commit(connectSSE([Cur EXCEPT !.timeouts = @ \ {t}]))
        /\ UNCHANGED prevSnap

\* window.reconnect() is called
Reconnect ==
    /\ Len(sources) < MaxSources
    /\ Commit(reconnect(Cur))
    /\ UNCHANGED prevSnap

TimeSyncData == {[serverNow |-> n] : n \in SnapshotNows}

\* a time-sync interval runs its callback; where in its period the clock
\* stands is left open
TimeSyncFires ==
    \E i \in intervals :
        /\ pendingSyncs < MaxSyncs
        /\ Commit(timeSyncTick(Cur))
        /\ UNCHANGED prevSnap

TimeSyncResponse ==
    \E data \in TimeSyncData :
        /\ pendingSyncs > 0
        /\ Commit([timeSyncResolved(Cur, data) EXCEPT !.pendingSyncs = @ - 1])
        /\ UNCHANGED prevSnap

TimeSyncError ==
    /\ pendingSyncs > 0
    /\ Commit([timeSyncRejected(Cur) EXCEPT !.pendingSyncs = @ - 1])
    /\ UNCHANGED prevSnap

ConnTick == Advance(ConnTickMs, MaxConnNow)

NextConn ==
    \/ ConnectSSE
    \/ OnOpen
    \/ OnError
    \/ ReconnectTimeout
    \/ Reconnect
    \/ SnapshotError
    \/ ConnTick

SpecConn == Init /\ [][NextConn]_vars

(***************************************************************************)
(* Server time: the channel opens and fails, rounds are announced,          *)
(* snapshots are pulled, the periodic time sync runs.                      *)
(***************************************************************************)
NextSync ==
    \/ ConnectSSE
    \/ OnOpen
    \/ OnError
    \/ RoundScheduled
    \/ SnapshotResponse
    \/ SnapshotError
    \/ TimeSyncFires
    \/ TimeSyncResponse
    \/ TimeSyncError
    \/ CountdownFrame
    \/ SettleTimeout
    \/ Tick

SpecSync == Init /\ [][NextSync]_vars

(***************************************************************************)
(* One round seen end to end on a visible page: the channel opens, the     *)
(* round is announced at server time 0, its countdown runs out, the round  *)
(* is reported started a little late.  Time advances in fine steps.        *)
(***************************************************************************)
ScenarioWindow == [id |-> "r1", startAt |-> 5000, endAt |-> 8000]

ScenarioScheduledEvent ==
    [startAt |-> ScenarioWindow.startAt, endAt |-> ScenarioWindow.endAt,
     totalMs |-> NULL, remainingMs |-> NULL, serverNow |-> 0]

ScenarioStartedEvent ==
    [roundId |-> ScenarioWindow.id, startAt |-> ScenarioWindow.startAt,
     endAt |-> ScenarioWindow.endAt, totalMs |-> NULL, remainingMs |-> NULL,
     serverNow |-> 5200]

\* round.scheduled arrives, the first event on the channel
ScenarioScheduled ==
    /\ ChannelOpen
    /\ scheduledStartAt = NULL
    /\ Commit(onRoundScheduled(Cur, ScenarioScheduledEvent))
    /\ UNCHANGED prevSnap

\* round.started arrives when the client's server
\* time has come that far
ScenarioStartedArrives ==
    /\ ChannelOpen
    /\ scheduledStartAt = ScenarioWindow.startAt
    /\ currentRoundId = NoRound
    /\ NothingDue(Cur)
    /\ getServerTime(Cur) > ScenarioStartedEvent.serverNow - FineTickMs
    /\ getServerTime(Cur) <= ScenarioStartedEvent.serverNow

ScenarioStarted ==
    /\ ScenarioStartedArrives
    /\ Commit(onRoundStarted(Cur, ScenarioStartedEvent))
    /\ UNCHANGED prevSnap

FineTick == Advance(FineTickMs, MaxFineNow)

NextE2E ==
    \/ ConnectSSE
    \/ OnOpen
    \/ SnapshotError
    \/ ScenarioScheduled
    \/ ScenarioStarted
    \/ CountdownFrame
    \/ FineTick

SpecE2E == Init /\ [][NextE2E]_vars

(***************************************************************************)
(* Properties.  A property of a handler is stated over every reachable     *)
(* state the handler can run in and every input it can be given.           *)
(***************************************************************************)

\* C1: once round.cancelled has set the cancellation horizon h, a
\* round.scheduled with startAt <= h that is processed while server time is
\* below h leaves the display Waiting; it does not enter Countdown.
CancellationSuppressesScheduled ==
    \A data \in RoundScheduledEvents :
        (/\ ChannelOpen
         /\ Truthy(cancelledUntil)
         /\ data.startAt <= cancelledUntil
         /\ getServerTime(Cur) < cancelledUntil
         /\ data.serverNow < cancelledUntil)
        => onRoundScheduled(Cur, data).gameState = "waiting"

\* C2: a settle-delay callback installed by startRolling never moves the
\* display to Result after a later event has moved it to Countdown or Waiting:
\* the transition out of Rolling has cancelled it.
StaleSettleNeverShowsResult ==
    [][(/\ gameState \in {"countdown", "waiting"}
        /\ \E t \in timeouts : /\ t.cb = "settle"
                               /\ t.due <= now
                               /\ timeouts' = timeouts \ {t})
       => gameState' # "result"]_vars

\* C3: round.started processed while a countdown to startAt has a tick
\* pending cancels that tick: the one tick pending afterwards, if any, is the
\* tick of the new countdown to endAt, the one countdownHandle names.
StartedCancelsStartCountdown ==
    \A data \in RoundStartedEvents :
        ChannelOpen =>
            LET s == onRoundStarted(Cur, data)
                ticks == {t \in s.timeouts : t.cb = "tick"}
            IN /\ Cardinality(s.frames) + Cardinality(ticks) <= 1
               /\ \A k \in PendingTicks(s) :
                      /\ k.label = "Result in"
                      /\ k.targetTime = CountdownTarget(s)

\* a countdown to startAt is running, its tick pending, and round.started
\* starts the countdown to endAt
StartedCancelsStartCountdownWitness ==
    \E data \in RoundStartedEvents :
        /\ ChannelOpen
        /\ gameState = "countdown"
        /\ \E k \in PendingTicks(Cur) : k.label = "Round starting in"
        /\ PendingTicks(onRoundStarted(Cur, data))
               = {[targetTime |-> data.endAt, label |-> "Result in"]}

\* C4: applying the snapshot that was applied last once more leaves the
\* display state as the first application left it and starts no timer again:
\* the waiting fallbacks and settle delays pending are those pending before.
ReappliedSnapshotChangesNothing ==
    \A data \in Snapshots :
        (pendingFetches > 0 /\ prevSnap.data = data)
        => LET s == snapshotResolved(Cur, data)
           IN /\ DisplayView(s).gameState = prevSnap.first.gameState
              /\ TimerView(s).waiting = TimerView(Cur).waiting
              /\ TimerView(s).settle = TimerView(Cur).settle

\* C5: applying an identical SCHEDULED snapshot again yields the display
\* state its first application yielded, with the same countdown target.
ReappliedScheduledSnapshotSameDisplay ==
    \A data \in ScheduledSnapshots :
        (pendingFetches > 0 /\ prevSnap.data = data)
        => DisplayView(snapshotResolved(Cur, data)) = prevSnap.first

\* a SCHEDULED snapshot that started a countdown is applied again, later on
\* the local clock
ReappliedScheduledSnapshotWitness ==
    \E data \in ScheduledSnapshots :
        /\ pendingFetches > 0
        /\ prevSnap.data = data
        /\ prevSnap.first.gameState = "countdown"
        /\ prevSnap.first.target # NULL
        /\ getServerTime(Cur) > data.serverNow
        /\ DisplayView(snapshotResolved(Cur, data)).target = prevSnap.first.target

\* C6: last.outcome processed in Countdown or Rolling stores the outcome
\* (target values, round id) and leaves the display state, the round window,
\* the cancellation horizon, the countdown handle and the timers as they were.
LastOutcomeOnlyStoresOutcome ==
    \A data \in LastOutcomeEvents :
        (ChannelOpen /\ gameState \in {"countdown", "rolling"})
        => LET s == onLastOutcome(Cur, data)
           IN /\ s.targetValues = data.diceValues
              /\ s.currentRoundId = data.roundId
              /\ s.gameState = gameState
              /\ s.scheduledStartAt = scheduledStartAt
              /\ s.scheduledEndAt = scheduledEndAt
              /\ s.cancelledUntil = cancelledUntil
              /\ s.countdownHandle = countdownHandle
              /\ s.countdownHandleMode = countdownHandleMode
              /\ s.frames = frames
              /\ s.timeouts = timeouts

\* a countdown is running with its tick pending and last.outcome brings an
\* outcome other than the stored one
LastOutcomeOnlyStoresOutcomeWitness ==
    \E data \in LastOutcomeEvents :
        /\ ChannelOpen
        /\ gameState = "countdown"
        /\ countdownHandle # NULL
        /\ targetValues # data.diceValues
        /\ onLastOutcome(Cur, data).targetValues = data.diceValues

\* C7: round.cancelled leaves the display Waiting("Waiting for next
\* round...") with the 2 s fallback armed, in every state it arrives in; with
\* nothing else happening, the fallback then shows Result with the stored
\* outcome.
CancelledFallsBackToResult ==
    \A data \in RoundCancelledEvents :
        ChannelOpen =>
            LET s == onRoundCancelled(Cur, data)
                later == [s EXCEPT !.now = @ + WaitingFallbackDelay]
            IN /\ s.gameState = "waiting"
               /\ s.statusText = "Waiting for next round..."
               /\ \E t \in s.timeouts :
                      /\ t.cb = "waiting"
                      /\ t.id = s.waitingStateTimeout
                      /\ t.due = later.now
                      /\ LET r == waitingFallback([later EXCEPT !.timeouts = @ \ {t}])
                         IN /\ r.gameState = "result"
                            /\ r.resultSymbols = buildResultSymbols(s.targetValues)

\* C8: from the same state, a STARTED_OR_REVEALED snapshot with diceValues = []
\* and a round.cancelled event leave the same Waiting display: the same status
\* label, no countdown tick pending.
EmptyDiceSnapshotAsCancelled ==
    \A data \in StartedSnapshots :
        \A event \in RoundCancelledEvents :
            (/\ pendingFetches > 0
             /\ ChannelOpen
             /\ data.round.diceValues = <<>>
             /\ data.serverNow = event.serverNow)
            => LET a == snapshotResolved(Cur, data)
                   b == onRoundCancelled(Cur, event)
               IN /\ a.gameState = "waiting"
                  /\ b.gameState = "waiting"
                  /\ a.statusText = b.statusText
                  /\ PendingTicks(a) = {}
                  /\ PendingTicks(b) = {}

\* C9: in the scenario, round.scheduled at server time 0 leaves a Countdown
\* to startAt; once server time has reached startAt and the tick has run the
\* display is Waiting("Waiting for result..."); the late round.started
\* leaves a Countdown to endAt, not to startAt, and endAt stays the target.
ScenarioDisplay ==
    /\ (/\ scheduledStartAt = ScenarioWindow.startAt
        /\ currentRoundId = NoRound
        /\ getServerTime(Cur) < ScenarioWindow.startAt)
       => /\ gameState = "countdown"
          /\ CountdownTarget(Cur) = ScenarioWindow.startAt
    /\ (/\ scheduledStartAt = ScenarioWindow.startAt
        /\ currentRoundId = NoRound
        /\ getServerTime(Cur) >= ScenarioWindow.startAt
        /\ NothingDue(Cur))
       => /\ gameState = "waiting"
          /\ statusText = "Waiting for result..."
    /\ ScenarioStartedArrives
       => LET s == onRoundStarted(Cur, ScenarioStartedEvent)
          IN /\ s.gameState = "countdown"
             /\ CountdownTarget(s) = ScenarioWindow.endAt
    /\ (/\ currentRoundId = ScenarioWindow.id
        /\ getServerTime(Cur) < ScenarioWindow.endAt)
       => /\ gameState = "countdown"
          /\ CountdownTarget(Cur) = ScenarioWindow.endAt

\* the scenario has run through: the late round.started was processed after
\* the expiry and the countdown to endAt is running
ScenarioDisplayWitness ==
    /\ currentRoundId = ScenarioWindow.id
    /\ scheduledStartAt = ScenarioWindow.startAt
    /\ getServerTime(Cur) > ScenarioStartedEvent.serverNow
    /\ gameState = "countdown"
    /\ CountdownTarget(Cur) = ScenarioWindow.endAt

\* C10: at most one snapshot fetch is in flight, and a reconciliation asked
\* for while one is pending starts no fetch and changes no state.
SingleSnapshotInFlight ==
    /\ pendingFetches <= 1
    /\ pendingFetches = 1
       => /\ fetchSnapshotAndSync(Cur) = Cur
          /\ onVisibilityChange([Cur EXCEPT !.hidden = FALSE])
                 = [Cur EXCEPT !.hidden = FALSE]

\* the page becomes visible again while the fetch issued on open is pending
SingleSnapshotInFlightWitness ==
    /\ pendingFetches = 1
    /\ hidden
    /\ onVisibilityChange([Cur EXCEPT !.hidden = FALSE]).pendingFetches = 1

\* the subscriptions that are connecting or open, with their handlers attached
LiveSources(s) == {i \in DOMAIN s.sources : s.sources[i] # "closed"}

\* C11: at every moment at most one push subscription is connecting or open;
\* no earlier subscription stays alive next to the current one.
AtMostOneLiveSubscription == Cardinality(LiveSources(Cur)) <= 1

\* the reconnect attempts are used up and the terminal status is shown
Exhausted(s) ==
    /\ s.reconnectAttempts >= maxReconnectAttempts
    /\ s.connectionText = "Connection failed"

\* C12: once maxReconnectAttempts automatic reconnects have been scheduled with
\* no open in between, the next closed-transport error schedules no reconnect
\* and reports "Connection failed" with connected = false, and from then on no
\* connection attempt is made until reconnect() is called: no step other than
\* reconnect() (which leaves the pending timers alone) creates an EventSource.
ExhaustedUntilManualReconnect ==
    /\ [](reconnectAttempts >= maxReconnectAttempts
          /\ eventSource # NULL /\ sources[eventSource] = "closed"
          => /\ onerror(Cur).timeouts = timeouts
             /\ onerror(Cur).connectionText = "Connection failed"
             /\ ~onerror(Cur).isConnected)
    /\ [][Exhausted(Cur) /\ Len(sources') > Len(sources)
          => timeouts' = timeouts /\ reconnectAttempts' = 0]_vars

\* the transport errors OnError can deliver in state s: subscription i goes to
\* readyState `to`
TransportErrors(s) ==
    {e \in [i : DOMAIN s.sources, to : {"connecting", "closed"}] :
        s.sources[e.i] # "closed"}

\* the reconnect timers pending, by the delay left
ReconnectDelays(s) == {t.due - s.now : t \in {u \in s.timeouts : u.cb = "reconnect"}}

ManualReconnectRestarts ==
    LET s1 == reconnect(Cur)
    IN /\ eventSource # NULL => s1.sources[eventSource] = "closed"
       /\ s1.reconnectAttempts = 0
       /\ s1.now = now
       /\ s1.timeouts = timeouts
       /\ Len(s1.sources) = Len(sources) + 1
       /\ s1.eventSource = Len(s1.sources)
       /\ s1.sources[s1.eventSource] = "connecting"
       /\ \A i \in DOMAIN sources : i # eventSource => s1.sources[i] = sources[i]
       /\ s1.connectionText = "Connecting..."

\* reconnect() is called in the exhausted state
ManualReconnectRestartsWitness ==
    /\ Exhausted(Cur)
    /\ sources[eventSource] = "closed"
    /\ Len(sources) < MaxSources
    /\ reconnect(Cur).reconnectAttempts = 0
    /\ reconnect(Cur).sources[reconnect(Cur).eventSource] = "connecting"

\* what a handler must leave alone to have changed nothing: the display state,
\* the RoundWindow, the stored outcome, the cancellation horizon, the
\* server-time offset and the pending timers
SameRound(s1, s) ==
    /\ DisplayView(s1) = DisplayView(s)
    /\ s1.scheduledStartAt = s.scheduledStartAt
    /\ s1.scheduledEndAt = s.scheduledEndAt
    /\ s1.targetValues = s.targetValues
    /\ s1.currentRoundId = s.currentRoundId
    /\ s1.cancelledUntil = s.cancelledUntil
    /\ s1.serverTimeOffset = s.serverTimeOffset
    /\ s1.frames = s.frames
    /\ s1.timeouts = s.timeouts
    /\ s1.intervals = s.intervals

\* C15: a push message whose body fails to decode is dropped: display state,
\* RoundWindow, stored outcome, cancellation horizon, server-time offset,
\* connected flag, reconnect-attempt counter and pending timers are unchanged.
MalformedMessageDropped ==
    \A kind \in EventKinds :
        ChannelOpen =>
            LET s1 == Listener(kind, Cur, Malformed)
            IN /\ SameRound(s1, Cur)
               /\ s1.isConnected = isConnected
               /\ s1.connectionText = connectionText
               /\ s1.reconnectAttempts = reconnectAttempts
               /\ s1.pendingFetches = pendingFetches

\* an undecodable last.outcome arrives on the open channel during a countdown
MalformedMessageDroppedWitness ==
    /\ ChannelOpen
    /\ isConnected
    /\ gameState = "countdown"
    /\ PendingTicks(Cur) # {}
    /\ Listener("last.outcome", Cur, Malformed).isConnected

\* C16: a snapshot fetch that fails leaves display state, RoundWindow, stored
\* outcome, cancellation horizon and server-time offset unchanged, releases
\* the in-flight flag and schedules no retry: a fetch is issued only by a step
\* in which a subscription opens or the page becomes visible again.
FailedSnapshotChangesNothing ==
    /\ [](pendingFetches > 0
          => LET s1 == snapshotRejected(Cur)
             IN /\ SameRound(s1, Cur)
                /\ ~s1.isFetchingSnapshot
                /\ s1.pendingFetches = pendingFetches
                /\ s1.isConnected = isConnected)
    /\ [][pendingFetches' > pendingFetches
          => \/ hidden /\ ~hidden'
             \/ \E i \in DOMAIN sources :
                    sources[i] = "connecting" /\ sources'[i] = "open"]_vars

\* the fetch issued on open fails while a countdown is shown
FailedSnapshotChangesNothingWitness ==
    /\ pendingFetches = 1
    /\ isFetchingSnapshot
    /\ gameState = "countdown"
    /\ PendingTicks(Cur) # {}
    /\ ~snapshotRejected(Cur).isFetchingSnapshot

\* C17: a countdown in progress does not stall while the tab is hidden: as
\* long as the display is in Countdown on a hidden page a tick is pending, so
\* the countdown goes on at the coarse cadence and reaches expiry.
HiddenCountdownKeepsTicking ==
    (gameState = "countdown" /\ hidden) => PendingTicks(Cur) # {}

\* local time that passes after a message is handled
Elapsed == {0, TickMs \div 2, TickMs}

\* s1 is the state a message stamped serverNow left when it was handled in s:
\* serverTime() called d later returns L' + (S - L)
ServerTimeFollows(s1, s, serverNow) ==
    \A d \in Elapsed :
        getServerTime([s1 EXCEPT !.now = s.now + d])
            = (s.now + d) + (serverNow - s.now)

\* C18: after a message carrying serverNow = S is processed at local time L,
\* serverTime() at any later local time L' returns L' + (S - L); every handled
\* push event, every applied snapshot and every successful periodic re-pull
\* sets the offset this way, and no callback that carries no server time
\* changes it.
ServerTimeTracksMessages ==
    /\ ChannelOpen =>
          /\ \A data \in LastOutcomeEvents :
                 ServerTimeFollows(Listener("last.outcome", Cur, Decoded(data)),
                                   Cur, data.serverNow)
          /\ \A data \in RoundScheduledEvents :
                 ServerTimeFollows(Listener("round.scheduled", Cur, Decoded(data)),
                                   Cur, data.serverNow)
          /\ \A data \in RoundStartedEvents :
                 ServerTimeFollows(Listener("round.started", Cur, Decoded(data)),
                                   Cur, data.serverNow)
          /\ \A data \in RoundResultEvents :
                 ServerTimeFollows(Listener("round.result", Cur, Decoded(data)),
                                   Cur, data.serverNow)
          /\ \A data \in RoundCancelledEvents :
                 ServerTimeFollows(Listener("round.cancelled", Cur, Decoded(data)),
                                   Cur, data.serverNow)
    /\ pendingFetches > 0 =>
          /\ \A data \in Snapshots :
                 ServerTimeFollows(snapshotResolved(Cur, data), Cur, data.serverNow)
          /\ snapshotRejected(Cur).serverTimeOffset = serverTimeOffset
    /\ pendingSyncs > 0 =>
          /\ \A data \in TimeSyncData :
                 ServerTimeFollows(timeSyncResolved(Cur, data), Cur, data.serverNow)
          /\ timeSyncRejected(Cur).serverTimeOffset = serverTimeOffset
    /\ timeSyncTick(Cur).serverTimeOffset = serverTimeOffset
    /\ \A e \in TransportErrors(Cur) :
           onerror([Cur EXCEPT !.sources[e.i] = e.to]).serverTimeOffset
               = serverTimeOffset
    /\ \A f \in frames :
           countdownTick(Cur, f.targetTime, f.label, f.totalDuration).serverTimeOffset
               = serverTimeOffset
    /\ waitingFallback(Cur).serverTimeOffset = serverTimeOffset
    /\ \A t \in timeouts :
           settleDelay(Cur, t.diceValues).serverTimeOffset = serverTimeOffset

\* a periodic re-pull answers with a server time that is behind the local
\* clock while the offset in use is another one
ServerTimeTracksMessagesWitness ==
    /\ pendingSyncs > 0
    /\ serverTimeOffset = 0
    /\ \E data \in TimeSyncData :
           /\ data.serverNow = now - MaxLatency
           /\ getServerTime([timeSyncResolved(Cur, data) EXCEPT !.now = now + TickMs])
                  = now + TickMs - MaxLatency

\* C20: the periodic time-resync interval runs only while the channel is
\* open: it is stopped when the channel closes and started again on the next
\* open, and at most one such interval exists at a time.
TimeSyncOnlyWhileOpen ==
    /\ Cardinality(intervals) <= 1
    /\ intervals # {} => eventSource # NULL /\ sources[eventSource] = "open"

\* C19: for a countdown with fixed target T the remaining time computed at
\* server times t1 < t2 < T satisfies 0 <= remaining(t2) <= remaining(t1),
\* whether only time passes between the two or a reconciliation re-applies the
\* round schedule in between and leaves the target where it was.
CountdownMonotone ==
    (gameState = "countdown" /\ CountdownTarget(Cur) # NULL) =>
        LET T == CountdownTarget(Cur)
            t1 == getServerTime(Cur)
            r1 == countdownRemaining(Cur, T)
        IN \A d \in Elapsed :
               LET later == [Cur EXCEPT !.now = @ + d]
               IN /\ (t1 < getServerTime(later) /\ getServerTime(later) < T)
                     => /\ 0 <= countdownRemaining(later, T)
                        /\ countdownRemaining(later, T) <= r1
                  /\ \A data \in Snapshots :
                         LET s1 == snapshotResolved(later,
                                       [data EXCEPT !.serverNow = @ + d])
                             t2 == getServerTime(s1)
                         IN (/\ s1.gameState = "countdown"
                             /\ CountdownTarget(s1) = T
                             /\ t1 < t2
                             /\ t2 < T)
                            => /\ 0 <= countdownRemaining(s1, T)
                               /\ countdownRemaining(s1, T) <= r1

\* a snapshot with the schedule of the running countdown is applied half a
\* tick later, and moves the server clock forward by more than that
CountdownMonotoneWitness ==
    /\ gameState = "countdown"
    /\ CountdownTarget(Cur) # NULL
    /\ pendingFetches > 0
    /\ \E data \in Snapshots :
           LET d == TickMs \div 2
               s1 == snapshotResolved([Cur EXCEPT !.now = @ + d],
                                      [data EXCEPT !.serverNow = @ + d])
           IN /\ s1.gameState = "countdown"
              /\ CountdownTarget(s1) = CountdownTarget(Cur)
              /\ getServerTime(Cur) + d < getServerTime(s1)
              /\ getServerTime(s1) < CountdownTarget(Cur)
              /\ countdownRemaining(s1, CountdownTarget(Cur))
                     < countdownRemaining(Cur, CountdownTarget(Cur))

\* C21: after a round.result event is processed no cancellation horizon is
\* set, so that a horizon an earlier round.cancelled installed suppresses no
\* schedule or snapshot that follows the result.
ResultClearsCancellation ==
    \A data \in RoundResultEvents :
        ChannelOpen => onRoundResult(Cur, data).cancelledUntil = NULL

\* C22 as stated: after round.cancelled is processed at server time t the
\* cancellation horizon equals max(w, t + fallback), w the endAt of the current
\* RoundWindow (its startAt when there is no endAt); it is never earlier than
\* t + fallback.
CancellationHorizonIsMax ==
    \A data \in RoundCancelledEvents :
        ChannelOpen =>
            LET s1 == onRoundCancelled(Cur, data)
                t == data.serverNow
                w == Coalesce(scheduledEndAt, scheduledStartAt)
            IN /\ s1.cancelledUntil
                      = (IF w = NULL THEN t + CancelFallbackMs
                         ELSE Max(w, t + CancelFallbackMs))
               /\ s1.cancelledUntil >= t + CancelFallbackMs

\* C22 amended: after round.cancelled is processed at server time t the
\* cancellation horizon equals the endAt of the current RoundWindow, its
\* startAt when there is no endAt, and t + fallback only when no RoundWindow
\* is known; it may be earlier than t + fallback.
CancellationHorizonIsWindowEnd ==
    \A data \in RoundCancelledEvents :
        ChannelOpen =>
            LET s1 == onRoundCancelled(Cur, data)
                t == data.serverNow
            IN s1.cancelledUntil
                   = (IF scheduledEndAt # NULL THEN scheduledEndAt
                      ELSE IF scheduledStartAt # NULL THEN scheduledStartAt
                      ELSE t + CancelFallbackMs)

\* round.cancelled arrives with a RoundWindow known: the horizon is its endAt,
\* earlier than the fallback
CancellationHorizonIsWindowEndWitness ==
    \E data \in RoundCancelledEvents :
        /\ ChannelOpen
        /\ scheduledEndAt # NULL
        /\ onRoundCancelled(Cur, data).cancelledUntil = scheduledEndAt
        /\ scheduledEndAt < data.serverNow + CancelFallbackMs

\* the countdown ticks pending, with the arguments their callback is run with
TickCallbacks(s) ==
    {[targetTime |-> f.targetTime, label |-> f.label,
      totalDuration |-> f.totalDuration] : f \in s.frames}
    \cup {[targetTime |-> t.targetTime, label |-> t.label,
           totalDuration |-> t.totalDuration] :
              t \in {u \in s.timeouts : u.cb = "tick"}}

\* C23: when a countdown expires, a countdown toward startAt makes no
\* automatic transition (the display keeps awaiting round.started); only a
\* countdown toward endAt moves the display to Waiting("Waiting for result...").
ExpiryOfStartCountdownKeepsDisplay ==
    \A k \in TickCallbacks(Cur) :
        (gameState = "countdown" /\ countdownRemaining(Cur, k.targetTime) = 0)
        => LET s1 == countdownTick(Cur, k.targetTime, k.label, k.totalDuration)
           IN IF k.label = "Round starting in"
              THEN s1.gameState = "countdown"
              ELSE /\ s1.gameState = "waiting"
                   /\ s1.statusText = "Waiting for result..."

\* the optional remainingMs of a message, when present, is the time from its
\* serverNow to the instant the countdown runs to
RemainingRunsTo(data, target) ==
    data.remainingMs = NULL \/ data.serverNow + data.remainingMs = target

SettleCallbacks(s) == {t \in s.timeouts : t.cb = "settle"}

\* C26: after round.result is processed, with no further event or snapshot,
\* the display is Rolling until the settle delay (rollDuration + 100 ms per die
\* + 500 ms) has elapsed and then becomes Result with the event's dice values:
\* the one settle callback pending is the event's, due after that delay, and it
\* shows the event's values.
RollSettlesAfterDelay ==
    \A data \in RoundResultEvents :
        ChannelOpen =>
            LET s1 == onRoundResult(Cur, data)
            IN /\ s1.gameState = "rolling"
               /\ \A t \in SettleCallbacks(s1) :
                      /\ t.due = s1.now + rollDuration + DiceCount * 100 + 500
                      /\ t.diceValues = data.diceValues
                      /\ settleDelay(s1, t.diceValues).gameState = "result"
                      /\ settleDelay(s1, t.diceValues).resultLabel = "Round Result"
               /\ SettleCallbacks(s1) # {}

\* C27: last.outcome changes the display state (to Result, shown as the last
\* outcome) if and only if the display is Idle, or Waiting with no RoundWindow
\* known (no endAt installed); in every other state, Waiting with a
\* RoundWindow included, the display state is as it was.
LastOutcomeShownOnlyWhenIdle ==
    \A data \in LastOutcomeEvents :
        ChannelOpen =>
            LET s1 == onLastOutcome(Cur, data)
            IN IF gameState = "idle"
                  \/ (gameState = "waiting" /\ scheduledEndAt = NULL)
               THEN /\ s1.gameState = "result"
                    /\ s1.resultLabel = "Last Result"
                    /\ s1.resultSymbols = buildResultSymbols(data.diceValues)
               ELSE /\ DisplayView(s1) = DisplayView(Cur)
                    /\ s1.statusText = statusText
                    /\ s1.resultLabel = resultLabel
                    /\ s1.resultSymbols = resultSymbols

\* last.outcome arrives in Waiting while a RoundWindow is known
LastOutcomeShownOnlyWhenIdleWitness ==
    \E data \in LastOutcomeEvents :
        /\ ChannelOpen
        /\ gameState = "waiting"
        /\ scheduledEndAt # NULL
        /\ onLastOutcome(Cur, data).gameState = "waiting"
        /\ onLastOutcome(Cur, data).targetValues = data.diceValues

\* what the equivalence of a snapshot and an event is about: the display
\* state with its countdown target, the RoundWindow and the cancellation
\* horizon
RoundView(s) ==
    [display |-> DisplayView(s), startAt |-> s.scheduledStartAt,
     endAt |-> s.scheduledEndAt, cancelledUntil |-> s.cancelledUntil]

\* the round.scheduled event with the fields of a SCHEDULED snapshot
ScheduledEventOf(data) ==
    [startAt |-> data.startAt, endAt |-> data.endAt, totalMs |-> data.totalMs,
     remainingMs |-> data.remainingMs, serverNow |-> data.serverNow]

\* C28: applying a SCHEDULED snapshot has the same effect on display state,
\* RoundWindow, cancellation horizon and countdown target as processing a
\* round.scheduled event with the same fields in the same state.
ScheduledSnapshotAsEvent ==
    \A data \in ScheduledSnapshots :
        (ChannelOpen /\ pendingFetches > 0)
        => RoundView(snapshotResolved(Cur, data))
               = RoundView(onRoundScheduled(Cur, ScheduledEventOf(data)))

\* the round.started event with the fields of a STARTED_OR_REVEALED snapshot
StartedEventOf(data) ==
    [roundId |-> data.round.id, startAt |-> data.round.startAt,
     endAt |-> data.round.endAt, totalMs |-> data.round.totalMs,
     remainingMs |-> data.round.remainingMs, serverNow |-> data.serverNow]

\* C29: applying a STARTED_OR_REVEALED snapshot with diceValues = null and
\* endAt later than serverNow has the same effect as processing round.started
\* for that round in the same state: cancellation horizon cleared, RoundWindow
\* installed, display in Countdown targeting endAt.
StartedSnapshotAsEvent ==
    \A data \in StartedSnapshots :
        (/\ ChannelOpen
         /\ pendingFetches > 0
         /\ data.round.diceValues = NullDice
         /\ data.serverNow < data.round.endAt
         /\ RemainingRunsTo(StartedEventOf(data), data.round.endAt))
        => LET s1 == snapshotResolved(Cur, data)
           IN /\ RoundView(s1) = RoundView(onRoundStarted(Cur, StartedEventOf(data)))
              /\ s1.cancelledUntil = NULL
              /\ s1.scheduledStartAt = data.round.startAt
              /\ s1.scheduledEndAt = data.round.endAt
              /\ DisplayView(s1)
                     = [gameState |-> "countdown", label |-> "",
                        target |-> data.round.endAt]

\* C30: applying a STARTED_OR_REVEALED snapshot with non-empty diceValues
\* whose endAt is at or before serverNow puts the display in Result with those
\* values, in every state, and starts no roll animation and no settle delay.
FinishedRoundShownAsResult ==
    \A data \in StartedSnapshots :
        (/\ pendingFetches > 0
         /\ IsArray(data.round.diceValues)
         /\ Len(data.round.diceValues) > 0
         /\ data.round.endAt <= data.serverNow)
        => LET s1 == snapshotResolved(Cur, data)
           IN /\ s1.gameState = "result"
              /\ s1.resultLabel = "Round Result"
              /\ s1.resultSymbols = buildResultSymbols(data.round.diceValues)
              /\ SettleCallbacks(s1) = SettleCallbacks(Cur)

\* C31: on every channel open the reconnect-attempt counter becomes 0,
\* connected becomes true, one snapshot reconciliation is requested (after the
\* open exactly one fetch is in flight), and the periodic time-resync interval
\* is started anew: the one interval running is the one the handle names.
OpenResetsAndResyncs ==
    \A i \in DOMAIN sources :
        sources[i] = "connecting"
        => LET s0 == [Cur EXCEPT !.sources[i] = "open"]
               s1 == onopen(s0)
           IN /\ s1.reconnectAttempts = 0
              /\ s1.isConnected
              /\ s1.connectionText = "Connected"
              /\ s1.isFetchingSnapshot
              /\ s1.pendingFetches = 1
              /\ s1.pendingFetches
                     = s0.pendingFetches + (IF s0.isFetchingSnapshot THEN 0 ELSE 1)
              /\ s1.timeSyncInterval # NULL
              /\ s1.intervals = {s1.timeSyncInterval}

\* the channel opens again after a scheduled reconnect: the counter is above 0,
\* no fetch is in flight and the interval of the first open is still running
OpenResetsAndResyncsWitness ==
    /\ reconnectAttempts > 0
    /\ ~isConnected
    /\ ~isFetchingSnapshot
    /\ timeSyncInterval # NULL
    /\ timeSyncInterval \in intervals
    /\ eventSource # NULL
    /\ sources[eventSource] = "connecting"
    /\ onopen([Cur EXCEPT !.sources[eventSource] = "open"]).reconnectAttempts = 0
    /\ onopen([Cur EXCEPT !.sources[eventSource] = "open"]).pendingFetches = 1

\* the step opens a push subscription, or makes the page visible again
OpensOrRegainsVisibility ==
    \/ hidden /\ ~hidden'
    \/ \E i \in DOMAIN sources : sources[i] = "connecting" /\ sources'[i] = "open"

\* C32: when the page becomes visible again a snapshot reconciliation is
\* requested in the visibilitychange handler itself, before any countdown tick
\* runs (a fetch is in flight when it returns, and no tick was run or queued);
\* a snapshot fetch is issued only by a channel open (also one that follows a
\* manual reconnect) and by visibility regained; and the periodic time-resync
\* timer changes nothing but the server-time offset: not the display state,
\* the RoundWindow or the stored outcome, and it requests no reconciliation.
ReconciliationOnlyOnOpenOrVisible ==
    /\ [](/\ hidden
             => LET s0 == [Cur EXCEPT !.hidden = FALSE]
                    s1 == onVisibilityChange(s0)
                IN /\ s1.isFetchingSnapshot
                   /\ s1.pendingFetches = 1
                   /\ s1.frames = frames
                   /\ s1.timeouts = timeouts
                   /\ DisplayView(s1) = DisplayView(Cur)
          /\ reconnect(Cur).pendingFetches = pendingFetches
          /\ \A e \in TransportErrors(Cur) :
                 onerror([Cur EXCEPT !.sources[e.i] = e.to]).pendingFetches
                     = pendingFetches
          /\ timeSyncTick(Cur) = [Cur EXCEPT !.pendingSyncs = @ + 1]
          /\ timeSyncRejected(Cur) = Cur
          /\ \A data \in TimeSyncData :
                 timeSyncResolved(Cur, data)
                     = [Cur EXCEPT !.serverTimeOffset = data.serverNow - now])
    /\ [][pendingFetches' > pendingFetches => OpensOrRegainsVisibility]_vars

\* the page is hidden with a countdown tick pending and no fetch in flight:
\* becoming visible issues the fetch and leaves the tick where it is
ReconciliationOnlyOnOpenOrVisibleWitness ==
    /\ hidden
    /\ ~isFetchingSnapshot
    /\ gameState = "countdown"
    /\ \E t \in timeouts : t.cb = "tick"
    /\ onVisibilityChange([Cur EXCEPT !.hidden = FALSE]).pendingFetches = 1
    /\ onVisibilityChange([Cur EXCEPT !.hidden = FALSE]).timeouts = timeouts

\* the countdown ticks pending in the browser: animation frames and "tick"
\* timeouts
TickHandles(s) ==
    {[mode |-> "raf", id |-> f.id] : f \in s.frames}
    \cup {[mode |-> "timeout", id |-> t.id] : t \in {u \in s.timeouts : u.cb = "tick"}}

\* C33: at most one countdown tick (animation frame or timeout) is pending at
\* any time, and it is the one countdownHandle names: whatever started a
\* countdown, event or snapshot, the previous tick was cancelled first.
OneCountdownHandle ==
    /\ Cardinality(frames) + Cardinality({t \in timeouts : t.cb = "tick"}) <= 1
    /\ TickHandles(Cur) \subseteq {[mode |-> countdownHandleMode, id |-> countdownHandle]}

\* a countdown to startAt is ticking and round.started arrives: the countdown
\* to endAt it starts replaces the pending tick
OneCountdownHandleWitness ==
    /\ gameState = "countdown"
    /\ Cardinality(TickHandles(Cur)) = 1
    /\ \E data \in RoundStartedEvents :
           /\ CountdownTarget(Cur) = data.startAt
           /\ CountdownTarget(onRoundStarted(Cur, data)) = data.endAt
           /\ Cardinality(TickHandles(onRoundStarted(Cur, data))) = 1

\* the arguments a countdown tick can be run with: those of the ticks pending,
\* and those a countdown to either end of a RoundWindow is started with
ProgressInputs(s) ==
    {[targetTime |-> k.targetTime, totalDuration |-> k.totalDuration] :
        k \in TickCallbacks(s)}
    \cup {[targetTime |-> t, totalDuration |-> r.totalMs] :
              t \in UNION {{w.startAt, w.endAt} : w \in Windows}, r \in Remainders}

\* C34: on every countdown tick the duration used as progress denominator is
\* at least max(1, remaining), so the progress 1 - remaining/duration lies in
\* [0, 1], for every target, total duration and server time, also when the
\* server-time offset has just jumped backwards.
ProgressWithinUnit ==
    \A k \in ProgressInputs(Cur) :
        \A s \in {Cur} \cup {timeSyncResolved(Cur, data) : data \in TimeSyncData} :
            LET remaining == countdownRemaining(s, k.targetTime)
                duration == countdownDuration(s, k.targetTime, k.totalDuration)
                progress == countdownProgress(s, k.targetTime, k.totalDuration)
            IN /\ remaining >= 0
               /\ duration >= Max(1, remaining)
               /\ progress.den = duration
               /\ 0 <= progress.num
               /\ progress.num <= progress.den

\* a tick is pending whose total duration is less than what remains: the
\* server-time offset went back since the countdown was started
ProgressWithinUnitWitness ==
    \E k \in TickCallbacks(Cur) :
        /\ k.totalDuration # NULL
        /\ countdownRemaining(Cur, k.targetTime) > k.totalDuration
        /\ countdownDuration(Cur, k.targetTime, k.totalDuration)
               = countdownRemaining(Cur, k.targetTime)

\* Outcome.diceValues of the message union: exactly six integers in 1..6
ValidDice(v) == Len(v) = DiceCount /\ \A i \in DOMAIN v : v[i] \in 1..6

\* round.result messages that decode but lie outside the union: too few dice,
\* and a die that shows no face
OutOfUnionResults ==
    {[roundId |-> o.roundId, diceValues |-> dv, serverNow |-> n] :
        o \in Outcomes, dv \in {<<3, 3, 3>>, <<7, 1, 1, 1, 1, 1>>}, n \in EventNows}

\* C35: a message that decodes but lies outside the message union is rejected
\* before it reaches the state machine (the listener changes nothing), so the
\* stored outcome's dice values are at all times six integers in 1..6.
StoredOutcomeAlwaysValid ==
    /\ ValidDice(targetValues)
    /\ ChannelOpen
       => \A data \in OutOfUnionResults :
              /\ roundResultListener(Cur, Decoded(data)) = Cur
              /\ ValidDice(roundResultListener(Cur, Decoded(data)).targetValues)

\* C36: whenever a countdown tick is pending the display state is Countdown:
\* no snapshot, settle-delay expiry or last.outcome leaves a countdown ticking
\* under a Result, Rolling or Waiting display.
TickOnlyUnderCountdown ==
    TickHandles(Cur) # {} => gameState = "countdown"

\* the snapshots the server took of a round before it had the round's result
SnapshotsBeforeResult ==
    {d \in ScheduledSnapshots \cup StartedSnapshots :
        d.state = "STARTED_OR_REVEALED" => d.round.diceValues = NullDice}

\* C37: a snapshot response never overrides newer live state: when round.result
\* is processed while a snapshot fetch is in flight, and the response, taken
\* before that result, is applied afterwards, the stored outcome is still the
\* one round.result brought and the display is still Rolling or Result.
SnapshotKeepsNewerResult ==
    (ChannelOpen /\ pendingFetches = 1)
    => \A ev \in RoundResultEvents :
           \A d \in SnapshotsBeforeResult :
               LET s1 == onRoundResult(Cur, ev)
                   s2 == snapshotResolved(s1, d)
               IN /\ s1.gameState = "rolling"
                  /\ s2.targetValues = ev.diceValues
                  /\ s2.gameState \in {"rolling", "result"}

\* something is still to run that can change the display with no further
\* message: a waiting fallback, a settle delay, a countdown tick, or the
\* response of a snapshot fetch in flight
DisplayCallbackPending(s) ==
    \/ \E t \in s.timeouts : t.cb \in {"waiting", "settle", "tick"}
    \/ s.frames # {}
    \/ s.pendingFetches > 0

\* C38: Waiting is never permanent: a Waiting state entered by a countdown
\* expiry, toward startAt or endAt, reaches Result with no further event or
\* snapshot.  For that, a callback that can change the display must be
\* pending when the expiry leaves the display in Waiting: with none, no
\* handler ever runs again.
WaitingNeverPermanent ==
    \A k \in TickCallbacks(Cur) :
        (gameState = "countdown" /\ countdownRemaining(Cur, k.targetTime) = 0)
        => LET s0 == [Cur EXCEPT !.frames = {}, !.timeouts = {t \in @ : t.cb # "tick"}]
               s1 == countdownTick(s0, k.targetTime, k.label, k.totalDuration)
           IN s1.gameState = "waiting" => DisplayCallbackPending(s1)

\* the snapshots fetchSnapshotAndSync returns early on in state s: a
\* cancellation window is in effect at their serverNow
EarlyReturnSnapshots(s) ==
    {d \in ScheduledSnapshots \cup StartedSnapshots :
        Truthy(s.cancelledUntil) /\ d.serverNow < s.cancelledUntil}

\* C39: the in-flight flag is set exactly while a fetch is pending, and every
\* fetch that completes releases it, whether it succeeds, fails, or returns
\* early because a cancellation window is in effect; a reconciliation
\* requested after a completed fetch issues a fetch.
FlagReleasedOnCompletion ==
    /\ isFetchingSnapshot <=> pendingFetches > 0
    /\ pendingFetches > 0
       => /\ \A data \in Snapshots :
                 LET s1 == [snapshotResolved(Cur, data) EXCEPT !.pendingFetches = @ - 1]
                 IN /\ ~s1.isFetchingSnapshot
                    /\ fetchSnapshotAndSync(s1).pendingFetches = 1
          /\ LET s1 == [snapshotRejected(Cur) EXCEPT !.pendingFetches = @ - 1]
             IN /\ ~s1.isFetchingSnapshot
                /\ fetchSnapshotAndSync(s1).pendingFetches = 1

\* a fetch is in flight while a cancellation window is in effect: its response
\* makes fetchSnapshotAndSync return early, and the flag is released
FlagReleasedOnCompletionWitness ==
    /\ pendingFetches = 1
    /\ isFetchingSnapshot
    /\ \E data \in EarlyReturnSnapshots(Cur) :
           /\ snapshotResolved(Cur, data).gameState = "waiting"
           /\ ~snapshotResolved(Cur, data).isFetchingSnapshot

\* C40: Idle is only the initial display state: once an event or a snapshot
\* has changed the display state, no event, snapshot or timer callback returns
\* it to Idle, and neither does a disconnect (onerror, with the reconnect it
\* schedules), a reconnect (the reconnect timer's connectSSE, reconnect()), an
\* open or the periodic time sync: those leave the display state as it is.
NeverBackToIdle ==
    /\ [](/\ reconnect(Cur).gameState = gameState
          /\ connectSSE(Cur).gameState = gameState
          /\ scheduleReconnect(Cur).gameState = gameState
          /\ onopen(Cur).gameState = gameState
          /\ \A e \in TransportErrors(Cur) :
                 onerror([Cur EXCEPT !.sources[e.i] = e.to]).gameState = gameState
          /\ timeSyncTick(Cur).gameState = gameState
          /\ timeSyncRejected(Cur).gameState = gameState
          /\ \A data \in TimeSyncData :
                 timeSyncResolved(Cur, data).gameState = gameState)
    /\ [][gameState # "idle" => gameState' # "idle"]_vars

\* the display waits with no round in progress and its fallback is due: the
\* fallback shows the last outcome, it does not go back to Idle
NeverBackToIdleWitness ==
    /\ gameState = "waiting"
    /\ \E t \in timeouts :
           /\ t.cb = "waiting"
           /\ t.due <= now
           /\ waitingFallback([Cur EXCEPT !.timeouts = @ \ {t}]).gameState = "result"

====
